---- MODULE Spec2Model ----
(***************************************************************************)
(* Model of matrix_factorization's BaselineModel (baseline_model.py): the  *)
(* bias-only rating predictor r_ui = global_mean + user_bias + item_bias,  *)
(* its two trainers (_sgd, _als), its error metric (_rmse), its predictor  *)
(* (_predict) and the estimator object that owns the learned parameters.   *)
(*                                                                         *)
(* Numbers.  The code computes in IEEE float64.  The model computes in     *)
(* exact rational arithmetic extended with the three non-finite floats     *)
(* that the code can produce: a number is a pair <<n, d>> with d >= 0,     *)
(* a finite n/d in lowest terms when d > 0, +inf = <<1,0>>,                *)
(* -inf = <<-1,0>> and NaN = <<0,0>>.  Rounding and signed zero are not    *)
(* modelled.                                                               *)
(***************************************************************************)
EXTENDS Integers, Sequences, FiniteSets, TLC

VARIABLES
    self,       \* the BaselineModel instance: its attributes, by name
    call,       \* the last fit/predict call on the instance and how it ended
    frame       \* the arguments and locals of a running _sgd/_als call

vars == <<self, call, frame>>

----------------------------------------------------------------------------
(* Bounds of the model *)

\* longest table handed to a trainer directly
MaxRecords == 3

\* longest table handed to fit
MaxTrain == 2

\* longest query batch
MaxQuery == 2

\* largest n_epochs
MaxEpochs == 2

----------------------------------------------------------------------------
(* float64 arithmetic, exact on the rationals *)

Abs(k) == IF k < 0 THEN -k ELSE k

Sgn(k) == IF k < 0 THEN -1 ELSE IF k > 0 THEN 1 ELSE 0

RECURSIVE GCD(_, _)
GCD(a, b) == IF b = 0 THEN a ELSE GCD(b, a % b)

NaN == <<0, 0>>

Zero == <<0, 1>>

Int2Float(k) == <<k, 1>>

IsNaN(a) == a[1] = 0 /\ a[2] = 0

IsFinite(a) == a[2] > 0

\* n/d for any integers: lowest terms, positive denominator; x/0 is +-inf, 0/0 is NaN
Ratio(n, d) ==
    IF d = 0 THEN <<Sgn(n), 0>>
    ELSE LET g == GCD(Abs(n), Abs(d))
         IN  <<Sgn(d) * (n \div g), Abs(d) \div g>>

Neg(a) == <<-a[1], a[2]>>

Add(a, b) ==
    IF IsNaN(a) \/ IsNaN(b) THEN NaN
    ELSE IF ~IsFinite(a) /\ ~IsFinite(b) THEN (IF a[1] = b[1] THEN a ELSE NaN)
    ELSE IF ~IsFinite(a) THEN a
    ELSE IF ~IsFinite(b) THEN b
    ELSE LET g == GCD(a[2], b[2])
         IN  Ratio(a[1] * (b[2] \div g) + b[1] * (a[2] \div g), (a[2] \div g) * b[2])

Sub(a, b) == Add(a, Neg(b))

Mul(a, b) ==
    IF IsFinite(a) /\ IsFinite(b)
    THEN LET g1 == GCD(Abs(a[1]), b[2])
             g2 == GCD(Abs(b[1]), a[2])
         IN  Ratio((a[1] \div g1) * (b[1] \div g2), (a[2] \div g2) * (b[2] \div g1))
    ELSE <<Sgn(a[1]) * Sgn(b[1]), 0>>

Div(a, b) ==
    IF IsNaN(a) \/ IsNaN(b) THEN NaN
    ELSE IF ~IsFinite(b) THEN (IF IsFinite(a) THEN Zero ELSE NaN)
    ELSE IF b[1] = 0 THEN <<Sgn(a[1]), 0>>
    ELSE Mul(a, <<Sgn(b[1]) * b[2], Abs(b[1])>>)

\* a < b; every comparison with NaN is false
Less(a, b) ==
    IF IsNaN(a) \/ IsNaN(b) THEN FALSE
    ELSE IF ~IsFinite(a) /\ ~IsFinite(b) THEN a[1] < b[1]
    ELSE IF ~IsFinite(a) THEN a[1] < 0
    ELSE IF ~IsFinite(b) THEN b[1] > 0
    ELSE LET g == GCD(a[2], b[2])
         IN  a[1] * (b[2] \div g) < b[1] * (a[2] \div g)

Leq(a, b) == ~IsNaN(a) /\ ~IsNaN(b) /\ ~Less(b, a)

\* np.zeros(n): a vector indexed 0..n-1
zeros(n) == [k \in 0..(n - 1) |-> Zero]

----------------------------------------------------------------------------
(* The numeric kernels.  X is a sequence of records <<user, item, rating>>  *)
(* (the rows of the numpy matrix); row i of the code is X[i + 1].           *)

\* X["rating"].mean(): NaN on an empty table
mean(X) ==
    LET RECURSIVE total(_)
        total(k) == IF k = 0 THEN 0 ELSE total(k - 1) + X[k][3]
    IN  Ratio(total(Len(X)), Len(X))

\* The radicand of _rmse, mean(square(errors)): the square root is strictly
\* increasing, so two RMSEs compare as their radicands do (NaN on an empty X).
rmse_squared(X, global_mean, user_biases, item_biases) ==
    LET errors(k) == Sub(Int2Float(X[k][3]),
                         Add(Add(global_mean, user_biases[X[k][1]]), item_biases[X[k][2]]))
        RECURSIVE total(_)
        total(k) == IF k = 0 THEN Zero
                    ELSE Add(total(k - 1), Mul(errors(k), errors(k)))
    IN  Div(total(Len(X)), Int2Float(Len(X)))

\* A plausible slip: the user's bias vector indexed by the item column.
sgd_record_swapped_index(rec, global_mean, user_biases, item_biases, lr, reg) ==
    LET user == rec[1]
        item == rec[2]
        rating_pred == Add(Add(global_mean, user_biases[user]), item_biases[item])
        error == Sub(Int2Float(rec[3]), rating_pred)
        slot == IF item \in DOMAIN user_biases THEN item ELSE user
    IN  [user_biases |-> [user_biases EXCEPT
                            ![slot] = Add(@, Mul(lr, Sub(error, Mul(reg, @))))],
         item_biases |-> [item_biases EXCEPT
                            ![item] = Add(@, Mul(lr, Sub(error, Mul(reg, @))))],
         rating_pred |-> rating_pred,
         error |-> error]

\* A plausible slip: the item update recomputes the error after the user update.
sgd_record_stale_error(rec, global_mean, user_biases, item_biases, lr, reg) ==
    LET user == rec[1]
        item == rec[2]
        rating_pred == Add(Add(global_mean, user_biases[user]), item_biases[item])
        error == Sub(Int2Float(rec[3]), rating_pred)
        ub == [user_biases EXCEPT ![user] = Add(@, Mul(lr, Sub(error, Mul(reg, @))))]
        error2 == Sub(Int2Float(rec[3]), Add(Add(global_mean, ub[user]), item_biases[item]))
    IN  [user_biases |-> ub,
         item_biases |-> [item_biases EXCEPT
                            ![item] = Add(@, Mul(lr, Sub(error2, Mul(reg, @))))],
         rating_pred |-> rating_pred,
         error |-> error]

\* One iteration of the record loop of _sgd.
sgd_record(rec, global_mean, user_biases, item_biases, lr, reg) ==
    LET user == rec[1]
        item == rec[2]
        rating_pred == Add(Add(global_mean, user_biases[user]), item_biases[item])
        error == Sub(Int2Float(rec[3]), rating_pred)
    IN  [user_biases |-> [user_biases EXCEPT
                            ![user] = Add(@, Mul(lr, Sub(error, Mul(reg, @))))],
         item_biases |-> [item_biases EXCEPT
                            ![item] = Add(@, Mul(lr, Sub(error, Mul(reg, @))))],
         rating_pred |-> rating_pred,
         error |-> error]

\* The record loop of _sgd from row i to the end of the table.
RECURSIVE sgd_epoch(_, _, _, _, _, _, _)
sgd_epoch(X, i, global_mean, user_biases, item_biases, lr, reg) ==
    IF i >= Len(X) THEN [user_biases |-> user_biases, item_biases |-> item_biases]
    ELSE LET r == sgd_record(X[i + 1], global_mean, user_biases, item_biases, lr, reg)
         IN  sgd_epoch(X, i + 1, global_mean, r.user_biases, r.item_biases, lr, reg)

\* _sgd: range(n_epochs) is empty for n_epochs <= 0.
RECURSIVE _sgd(_, _, _, _, _, _, _)
_sgd(X, global_mean, user_biases, item_biases, n_epochs, lr, reg) ==
    IF n_epochs <= 0 THEN [user_biases |-> user_biases, item_biases |-> item_biases]
    ELSE LET r == sgd_epoch(X, 0, global_mean, user_biases, item_biases, lr, reg)
         IN  _sgd(X, global_mean, r.user_biases, r.item_biases, n_epochs - 1, lr, reg)

\* One accumulation loop of _als from row i on: key = 1 accumulates per user
\* against the item biases, key = 2 per item against the user biases.
RECURSIVE accumulate(_, _, _, _, _, _)
accumulate(X, i, global_mean, key, other_biases, acc) ==
    IF i >= Len(X) THEN acc
    ELSE LET k == X[i + 1][key]
             o == X[i + 1][3 - key]
             term == Sub(Sub(Int2Float(X[i + 1][3]), global_mean), other_biases[o])
         IN  accumulate(X, i + 1, global_mean, key, other_biases,
                        [biases |-> [acc.biases EXCEPT ![k] = Add(@, term)],
                         sizes |-> [acc.sizes EXCEPT ![k] = @ + 1]])

\* One closed-form pass of _als over n parameters: zero the accumulators,
\* accumulate, divide by reg + size.
solve(X, global_mean, n, key, other_biases, reg) ==
    LET acc == accumulate(X, 0, global_mean, key, other_biases,
                          [biases |-> zeros(n), sizes |-> [k \in 0..(n - 1) |-> 0]])
    IN  [k \in 0..(n - 1) |-> Div(acc.biases[k], Add(reg, Int2Float(acc.sizes[k])))]

\* A plausible slip: the item pass reads the user biases of the previous epoch.
als_epoch_stale_users(X, global_mean, user_biases, item_biases, reg) ==
    [user_biases |-> solve(X, global_mean, Cardinality(DOMAIN user_biases), 1, item_biases, reg),
     item_biases |-> solve(X, global_mean, Cardinality(DOMAIN item_biases), 2, user_biases, reg)]

\* A plausible slip: the user pass accumulates on top of the previous user
\* biases instead of starting from zero.
als_epoch_users_not_zeroed(X, global_mean, user_biases, item_biases, reg) ==
    LET n_users == Cardinality(DOMAIN user_biases)
        n_items == Cardinality(DOMAIN item_biases)
        acc == accumulate(X, 0, global_mean, 1, item_biases,
                          [biases |-> user_biases, sizes |-> [k \in 0..(n_users - 1) |-> 0]])
        ub == [k \in 0..(n_users - 1) |->
                  Div(acc.biases[k], Add(reg, Int2Float(acc.sizes[k])))]
    IN  [user_biases |-> ub,
         item_biases |-> solve(X, global_mean, n_items, 2, ub, reg)]

\* The body of the epoch loop of _als: the user pass, then the item pass.
als_epoch(X, global_mean, user_biases, item_biases, reg) ==
    LET n_users == Cardinality(DOMAIN user_biases)
        n_items == Cardinality(DOMAIN item_biases)
        ub == solve(X, global_mean, n_users, 1, item_biases, reg)
    IN  [user_biases |-> ub,
         item_biases |-> solve(X, global_mean, n_items, 2, ub, reg)]

RECURSIVE _als(_, _, _, _, _, _)
_als(X, global_mean, user_biases, item_biases, n_epochs, reg) ==
    IF n_epochs <= 0 THEN [user_biases |-> user_biases, item_biases |-> item_biases]
    ELSE LET r == als_epoch(X, global_mean, user_biases, item_biases, reg)
         IN  _als(X, global_mean, r.user_biases, r.item_biases, n_epochs - 1, reg)

\* the index that stands for an identifier absent from training
UNKNOWN == -1

\* A plausible slip: rating_pred is not reset to global_mean for each record.
RECURSIVE _predict_running_total(_, _, _, _, _, _)
_predict_running_total(X, global_mean, min_rating, max_rating, user_biases, item_biases) ==
    IF X = <<>> THEN [predictions |-> <<>>, predictions_possible |-> <<>>, reads |-> <<>>]
    ELSE LET head == _predict_running_total(SubSeq(X, 1, Len(X) - 1), global_mean, min_rating,
                                            max_rating, user_biases, item_biases)
             user == X[Len(X)][1]
             item == X[Len(X)][2]
             start == IF Len(X) = 1 THEN global_mean
                      ELSE head.predictions[Len(X) - 1]
             p1 == IF user # UNKNOWN THEN Add(start, user_biases[user]) ELSE start
             p2 == IF item # UNKNOWN THEN Add(p1, item_biases[item]) ELSE p1
             rating_pred == IF Less(max_rating, p2) THEN max_rating
                            ELSE IF Less(p2, min_rating) THEN min_rating
                            ELSE p2
         IN  [predictions |-> Append(head.predictions, rating_pred),
              predictions_possible |->
                  Append(head.predictions_possible, user # UNKNOWN /\ item # UNKNOWN),
              reads |-> Append(head.reads,
                               {<<"user_biases", k>> : k \in {user} \ {UNKNOWN}} \cup
                               {<<"item_biases", k>> : k \in {item} \ {UNKNOWN}})]

\* _predict: the lists it returns, and per record the bias entries it indexed.
RECURSIVE _predict(_, _, _, _, _, _)
_predict(X, global_mean, min_rating, max_rating, user_biases, item_biases) ==
    IF X = <<>> THEN [predictions |-> <<>>, predictions_possible |-> <<>>, reads |-> <<>>]
    ELSE LET head == _predict(SubSeq(X, 1, Len(X) - 1), global_mean, min_rating,
                              max_rating, user_biases, item_biases)
             user == X[Len(X)][1]
             item == X[Len(X)][2]
             user_known == user # UNKNOWN
             item_known == item # UNKNOWN
             p1 == IF user_known THEN Add(global_mean, user_biases[user]) ELSE global_mean
             p2 == IF item_known THEN Add(p1, item_biases[item]) ELSE p1
             rating_pred == IF Less(max_rating, p2) THEN max_rating
                            ELSE IF Less(p2, min_rating) THEN min_rating
                            ELSE p2
         IN  [predictions |-> Append(head.predictions, rating_pred),
              predictions_possible |->
                  Append(head.predictions_possible, user_known /\ item_known),
              reads |-> Append(head.reads,
                               {<<"user_biases", k>> : k \in {user} \ {UNKNOWN}} \cup
                               {<<"item_biases", k>> : k \in {item} \ {UNKNOWN}})]

----------------------------------------------------------------------------
(* The estimator.  An instance is a record of its attributes; a table handed *)
(* to fit is a sequence of <<u_id, i_id, rating>> and a query a sequence of *)
(* <<u_id, i_id>>, with the caller's own identifiers.                       *)

None == <<"None">>

\* the distinct values of a column, in order of first appearance
RECURSIVE unique(_, _)
unique(raw, col) ==
    IF raw = <<>> THEN <<>>
    ELSE LET front == unique(SubSeq(raw, 1, Len(raw) - 1), col)
             id == raw[Len(raw)][col]
         IN  IF \E k \in 1..Len(front) : front[k] = id THEN front ELSE Append(front, id)

\* utils.preprocess_data: dense indices 0..n-1 for the user and the item
\* identifiers, and the table rewritten with them
preprocess_data(raw) ==
    LET index(ids) == [id \in {ids[k] : k \in 1..Len(ids)} |->
                          (CHOOSE k \in 1..Len(ids) : ids[k] = id) - 1]
        user_id_map == index(unique(raw, 1))
        item_id_map == index(unique(raw, 2))
    IN  [X |-> [k \in 1..Len(raw) |->
                  <<user_id_map[raw[k][1]], item_id_map[raw[k][2]], raw[k][3]>>],
         user_id_map |-> user_id_map,
         item_id_map |-> item_id_map]

\* BaselineModel.__init__: the hyper-parameters as given, nothing learned
new(method, n_epochs, reg, lr, min_rating, max_rating) ==
    [method |-> method, n_epochs |-> n_epochs, reg |-> reg, lr |-> lr,
     min_rating |-> min_rating, max_rating |-> max_rating,
     n_users |-> None, n_items |-> None, global_mean |-> None,
     user_biases |-> None, item_biases |-> None,
     _user_id_map |-> None, _item_id_map |-> None, _predictions_possible |-> None]

\* BaselineModel.fit: the instance as fit leaves it
fit(est, raw) ==
    LET p == preprocess_data(raw)
        n_users == Cardinality(DOMAIN p.user_id_map)
        n_items == Cardinality(DOMAIN p.item_id_map)
        global_mean == mean(p.X)
        start == [user_biases |-> zeros(n_users), item_biases |-> zeros(n_items)]
        learned ==
            IF est.method = "sgd"
            THEN _sgd(p.X, global_mean, start.user_biases, start.item_biases,
                      est.n_epochs, est.lr, est.reg)
            ELSE IF est.method = "als"
            THEN _als(p.X, global_mean, start.user_biases, start.item_biases,
                      est.n_epochs, est.reg)
            ELSE start
    IN  [est EXCEPT !._user_id_map = p.user_id_map,
                    !._item_id_map = p.item_id_map,
                    !.n_users = n_users,
                    !.n_items = n_items,
                    !.global_mean = global_mean,
                    !.user_biases = learned.user_biases,
                    !.item_biases = learned.item_biases]

\* Series.map(id_map) then fillna(-1), for one identifier
remap(id_map, id) == IF id \in DOMAIN id_map THEN id_map[id] ELSE UNKNOWN

\* the rest of BaselineModel.predict once the id maps are there
predict_mapped(est, query) ==
    LET X == [k \in 1..Len(query) |->
                <<remap(est._user_id_map, query[k][1]), remap(est._item_id_map, query[k][2])>>]
        r == _predict(X, est.global_mean, est.min_rating, est.max_rating,
                      est.user_biases, est.item_biases)
    IN  [outcome |-> "returned", X |-> X, predictions |-> r.predictions,
         predictions_possible |-> r.predictions_possible, reads |-> r.reads]

\* A plausible slip: an instance without id maps treated as one with empty maps.
predict_unguarded(est, query) ==
    IF est._user_id_map = None \/ est._item_id_map = None
    THEN [outcome |-> "returned", X |-> [k \in 1..Len(query) |-> <<UNKNOWN, UNKNOWN>>],
          predictions |-> [k \in 1..Len(query) |-> Zero],
          predictions_possible |-> [k \in 1..Len(query) |-> FALSE],
          reads |-> [k \in 1..Len(query) |-> {}]]
    ELSE predict_mapped(est, query)

\* BaselineModel.predict: on an instance that was never fitted the id maps are
\* None and mapping the identifiers through them raises (as does handing None
\* parameters to the compiled _predict); nothing is returned.
predict(est, query) ==
    IF est._user_id_map = None \/ est._item_id_map = None
    THEN [outcome |-> "raised", X |-> <<>>, predictions |-> <<>>,
          predictions_possible |-> <<>>, reads |-> <<>>]
    ELSE predict_mapped(est, query)

----------------------------------------------------------------------------
(* The life of one instance: constructed with some hyper-parameters, then   *)
(* any sequence of fit and predict calls, each a single step.               *)

Ratings == {3, 5}

Regs == {Zero, <<1, 1>>}

LearningRates == {<<1, 2>>}

\* The hyper-parameters an instance is constructed with: two valid ones, and one
\* of each kind that the constructor accepts although the configuration is
\* invalid (an unknown method, n_epochs = 0, min_rating > max_rating).
\* range is <<min_rating, max_rating>>.
Configs ==
    {[method |-> "sgd", n_epochs |-> 1, reg |-> <<1, 1>>, lr |-> <<1, 2>>, range |-> <<4, 5>>],
     [method |-> "als", n_epochs |-> 1, reg |-> Zero, lr |-> <<1, 2>>, range |-> <<3, 4>>],
     [method |-> "svd", n_epochs |-> 1, reg |-> <<1, 1>>, lr |-> <<1, 2>>, range |-> <<4, 5>>],
     [method |-> "sgd", n_epochs |-> 0, reg |-> <<1, 1>>, lr |-> <<1, 2>>, range |-> <<3, 4>>],
     [method |-> "als", n_epochs |-> 1, reg |-> <<1, 1>>, lr |-> <<1, 2>>, range |-> <<5, 4>>]}

\* the rows a training table is made of, and the pairs a query is made of
TrainingRows == {<<11, 21, 3>>, <<11, 22, 5>>, <<12, 21, 5>>}

QueryRows == {<<11, 21>>, <<12, 22>>}

SeqsUpTo(S, n) == UNION {[1..k -> S] : k \in 0..n}

TrainingTables == SeqsUpTo(TrainingRows, MaxTrain)

Queries == SeqsUpTo(QueryRows, MaxQuery)

NoCall ==
    [op |-> "none", outcome |-> "none", query |-> <<>>, X |-> <<>>, predictions |-> <<>>,
     predictions_possible |-> <<>>, reads |-> <<>>]

NoFrame == [pc |-> "none"]

Init ==
    /\ \E c \in Configs :
         self = new(c.method, c.n_epochs, c.reg, c.lr,
                    Int2Float(c.range[1]), Int2Float(c.range[2]))
    /\ call = NoCall
    /\ frame = NoFrame

\* a call of fit: it returns self
Fit ==
    /\ \E raw \in TrainingTables :
         /\ self' = fit(self, raw)
         /\ call' = [NoCall EXCEPT !.op = "fit", !.outcome = "returned"]
    /\ UNCHANGED frame

\* a call of predict: it returns the predictions and keeps the flags on the instance
Predict ==
    /\ \E query \in Queries :
         LET r == predict(self, query)
         IN  /\ call' = [op |-> "predict", outcome |-> r.outcome, query |-> query,
                         X |-> r.X, predictions |-> r.predictions,
                         predictions_possible |-> r.predictions_possible,
                         reads |-> r.reads]
             /\ self' = IF r.outcome = "returned"
                        THEN [self EXCEPT !._predictions_possible = r.predictions_possible]
                        ELSE self
    /\ UNCHANGED frame

Next == Fit \/ Predict

Spec == Init /\ [][Next]_vars

----------------------------------------------------------------------------
(* Properties of the estimator (checked under Spec) *)

\* FITTED: fit has set the learned attributes
Fitted(est) == est._user_id_map # None

Learned(est) == <<est.global_mean, est.user_biases, est.item_biases>>

InvalidConfiguration(est) ==
    \/ est.method \notin {"sgd", "als"}
    \/ Less(est.max_rating, est.min_rating)
    \/ est.n_epochs <= 0

PredictReturned == call.op = "predict" /\ call.outcome = "returned"

\* max(lo, min(hi, x))
Clip(x, lo, hi) ==
    LET capped == IF Less(x, hi) THEN x ELSE hi
    IN  IF Less(lo, capped) THEN capped ELSE lo

\* C1: every rating that predict returns lies in [min_rating, max_rating], whatever
\* was learned and whether the record's indices are known or UNKNOWN.
C1_PredictionsInRange ==
    PredictReturned =>
        \A k \in 1..Len(call.predictions) :
            /\ Leq(self.min_rating, call.predictions[k])
            /\ Leq(call.predictions[k], self.max_rating)

\* C2: fit on an instance with an invalid configuration (unknown method,
\* min_rating > max_rating, n_epochs <= 0) raises before any training step: the
\* instance does not become fitted and no learned attribute is set or changed.
C2_InvalidConfigurationRejected ==
    [][(InvalidConfiguration(self) /\ call'.op = "fit") =>
          /\ call'.outcome = "raised"
          /\ Fitted(self') = Fitted(self)
          /\ Learned(self') = Learned(self)]_vars

\* C3: on a fitted instance a second fit raises, and the learned global_mean,
\* user_biases and item_biases are never changed again by any fit or predict call.
C3_NoRefit ==
    [][Fitted(self) =>
          /\ call'.op = "fit" => call'.outcome = "raised"
          /\ Learned(self') = Learned(self)]_vars

C6_ColdStart ==
    PredictReturned =>
        \A k \in 1..Len(call.X) :
            call.X[k] = <<UNKNOWN, UNKNOWN>> =>
                /\ call.predictions[k] =
                      Clip(self.global_mean, self.min_rating, self.max_rating)
                /\ call.predictions_possible[k] = FALSE
                /\ call.reads[k] = {}

\* C7: predict on N query records returns N predictions and N flags, the k-th of
\* each computed from the k-th record alone (the prediction is what predicting
\* that record by itself gives, the flag is user known AND item known), for any
\* mix of known and unknown identifiers.
C7_PredictOrder ==
    PredictReturned =>
        /\ Len(call.predictions) = Len(call.query)
        /\ Len(call.predictions_possible) = Len(call.query)
        /\ self._predictions_possible = call.predictions_possible
        /\ \A k \in 1..Len(call.query) :
              LET rec == <<remap(self._user_id_map, call.query[k][1]),
                           remap(self._item_id_map, call.query[k][2])>>
                  alone == _predict(<<rec>>, self.global_mean, self.min_rating,
                                    self.max_rating, self.user_biases, self.item_biases)
              IN  /\ call.predictions[k] = alone.predictions[1]
                  /\ call.predictions_possible[k] = (rec[1] # UNKNOWN /\ rec[2] # UNKNOWN)

C7_Witness ==
    /\ PredictReturned
    /\ Len(call.query) = MaxQuery
    /\ call.predictions_possible[1]
    /\ ~call.predictions_possible[2]
    /\ call.X[2][1] # UNKNOWN
    /\ call.predictions[1] # call.predictions[2]
    /\ call.predictions[1] # self.global_mean

----------------------------------------------------------------------------
(* A trainer call, one loop iteration per step: the inputs are drawn in the  *)
(* initial state, as the arguments fit would pass (zero-filled biases,      *)
(* global_mean the mean rating) but with any vector lengths that cover the  *)
(* table's indices.                                                         *)

VectorLengths == {1, 2}

Tables(nu, ni) == SeqsUpTo((0..(nu - 1)) \X (0..(ni - 1)) \X Ratings, MaxRecords)

\* The worked example: table, SGD, one epoch, lr = 0.1, reg = 0.
ExampleTable == << <<0, 0, 5>>, <<0, 1, 3>>, <<1, 0, 4>> >>

ExampleCall ==
    [kernel |-> "sgd", X |-> ExampleTable, n_users |-> 2, n_items |-> 2,
     n_epochs |-> 1, lr |-> <<1, 10>>, reg |-> Zero]

TrainerCalls ==
    {ExampleCall} \cup
    UNION {[kernel : {"sgd", "als"}, X : Tables(nu, ni), n_users : {nu}, n_items : {ni},
            n_epochs : 0..MaxEpochs, lr : LearningRates, reg : Regs]
           : <<nu, ni>> \in VectorLengths \X VectorLengths}

\* BaselineModel(): every hyper-parameter at its default
DefaultInstance ==
    new("sgd", 100, <<1, 50>>, <<1, 200>>, Int2Float(0), Int2Float(5))

KernelInit ==
    /\ self = DefaultInstance
    /\ call = NoCall
    /\ \E c \in TrainerCalls :
         frame = [pc |-> c.kernel, kernel |-> c.kernel, X |-> c.X,
                  global_mean |-> mean(c.X),
                  user_biases |-> zeros(c.n_users), item_biases |-> zeros(c.n_items),
                  n_epochs |-> c.n_epochs, lr |-> c.lr, reg |-> c.reg,
                  epoch |-> 0, i |-> 0, rating_pred |-> NaN, error |-> NaN,
                  n_updates |-> 0]

\* _sgd, one record: read row i, compute the error, update both biases in place.
SgdRecord ==
    /\ frame.pc = "sgd"
    /\ frame.epoch < frame.n_epochs
    /\ frame.i < Len(frame.X)
    /\ LET r == sgd_record(frame.X[frame.i + 1], frame.global_mean, frame.user_biases,
                           frame.item_biases, frame.lr, frame.reg)
       IN  frame' = [frame EXCEPT !.user_biases = r.user_biases,
                                  !.item_biases = r.item_biases,
                                  !.rating_pred = r.rating_pred,
                                  !.error = r.error,
                                  !.i = @ + 1,
                                  !.n_updates = @ + 1]
    /\ UNCHANGED <<self, call>>

\* _sgd, the record loop is exhausted: the next epoch starts at row 0.
SgdEpochEnd ==
    /\ frame.pc = "sgd"
    /\ frame.epoch < frame.n_epochs
    /\ frame.i >= Len(frame.X)
    /\ frame' = [frame EXCEPT !.epoch = @ + 1, !.i = 0]
    /\ UNCHANGED <<self, call>>

\* _als, one epoch: the user pass, then the item pass.
AlsEpoch ==
    /\ frame.pc = "als"
    /\ frame.epoch < frame.n_epochs
    /\ LET r == als_epoch(frame.X, frame.global_mean, frame.user_biases,
                          frame.item_biases, frame.reg)
       IN  frame' = [frame EXCEPT !.user_biases = r.user_biases,
                                  !.item_biases = r.item_biases,
                                  !.epoch = @ + 1]
    /\ UNCHANGED <<self, call>>

\* The epoch loop is exhausted: return user_biases, item_biases.
TrainerReturn ==
    /\ frame.pc \in {"sgd", "als"}
    /\ frame.epoch >= frame.n_epochs
    /\ frame' = [frame EXCEPT !.pc = "returned"]
    /\ UNCHANGED <<self, call>>

KernelNext == SgdRecord \/ SgdEpochEnd \/ AlsEpoch \/ TrainerReturn

KernelSpec == KernelInit /\ [][KernelNext]_vars

----------------------------------------------------------------------------
(* Properties of the trainers (checked under KernelSpec) *)

\* the rows of X whose user (key = 1) or item (key = 2) is k
RowsOf(X, key, k) == {j \in 1..Len(X) : X[j][key] = k}

RECURSIVE SumOf(_, _)
SumOf(f, S) ==
    IF S = {} THEN Zero
    ELSE LET j == CHOOSE j \in S : TRUE IN Add(f[j], SumOf(f, S \ {j}))

\* sum over the rows of k of (rating - global_mean - other bias), over reg + count
ClosedForm(X, global_mean, n, key, other_biases, reg) ==
    LET residual == [j \in 1..Len(X) |->
                        Sub(Sub(Int2Float(X[j][3]), global_mean), other_biases[X[j][3 - key]])]
    IN  [k \in 0..(n - 1) |->
            Div(SumOf(residual, RowsOf(X, key, k)),
                Add(reg, Int2Float(Cardinality(RowsOf(X, key, k)))))]

\* every index that occurs in no row of the table has bias exactly 0
UntouchedAreZero ==
    /\ \A u \in DOMAIN frame.user_biases :
          RowsOf(frame.X, 1, u) = {} => frame.user_biases[u] = Zero
    /\ \A t \in DOMAIN frame.item_biases :
          RowsOf(frame.X, 2, t) = {} => frame.item_biases[t] = Zero

SomeUntouched ==
    \/ \E u \in DOMAIN frame.user_biases : RowsOf(frame.X, 1, u) = {}
    \/ \E t \in DOMAIN frame.item_biases : RowsOf(frame.X, 2, t) = {}

SomeLearned ==
    \/ \E u \in DOMAIN frame.user_biases : frame.user_biases[u] # Zero
    \/ \E t \in DOMAIN frame.item_biases : frame.item_biases[t] # Zero

\* C5 as stated: for every reg >= 0, reg = 0 included, a user or item index
\* that appears in no training record has bias exactly 0 when _sgd or _als returns.
C5_UntouchedZero_AnyReg ==
    frame.pc = "returned" => UntouchedAreZero

\* C5 amended: a user or item index that appears in no training record has bias
\* exactly 0 when _sgd returns (any reg >= 0) and when _als returns with reg > 0.
C5_UntouchedZero ==
    (frame.pc = "returned" /\ (frame.kernel = "sgd" \/ Less(Zero, frame.reg)))
        => UntouchedAreZero

C5_Witness ==
    /\ frame.pc = "returned"
    /\ frame.kernel = "als"
    /\ Less(Zero, frame.reg)
    /\ frame.epoch = MaxEpochs
    /\ SomeUntouched
    /\ SomeLearned

AlsEpochStep == frame.pc = "als" /\ frame'.epoch = frame.epoch + 1

RmseNotIncreased ==
    Leq(rmse_squared(frame.X, frame.global_mean, frame'.user_biases, frame'.item_biases),
        rmse_squared(frame.X, frame.global_mean, frame.user_biases, frame.item_biases))

\* C8 as stated: on a (non-empty) training table and for any reg >= 0, the training
\* RMSE after each _als epoch is at most the training RMSE before that epoch.
C8_AlsRmseMonotone_AnyReg ==
    [][(AlsEpochStep /\ Len(frame.X) > 0) => RmseNotIncreased]_vars

\* C8 amended: on a non-empty training table and with reg = 0, the training RMSE
\* after each _als epoch is at most the training RMSE before that epoch.
C8_AlsRmseMonotone_NoReg ==
    [][(AlsEpochStep /\ Len(frame.X) > 0 /\ frame.reg = Zero) => RmseNotIncreased]_vars

C8_Witness ==
    /\ frame.kernel = "als"
    /\ frame.reg = Zero
    /\ frame.epoch = MaxEpochs
    /\ Less(rmse_squared(frame.X, frame.global_mean, frame.user_biases, frame.item_biases),
            rmse_squared(frame.X, frame.global_mean,
                         zeros(Cardinality(DOMAIN frame.user_biases)),
                         zeros(Cardinality(DOMAIN frame.item_biases))))

\* C10: in every _als epoch each user bias becomes sum(rating - global_mean -
\* item_biases[item]) / (reg + count) over the user's rows, from the item biases
\* of the previous epoch and not from the old user biases, and each item bias then
\* becomes the same expression over the user biases that this epoch just produced.
C10_AlsUserPassThenItemPass ==
    [][AlsEpochStep =>
         /\ frame'.user_biases =
               ClosedForm(frame.X, frame.global_mean, Cardinality(DOMAIN frame.user_biases),
                          1, frame.item_biases, frame.reg)
         /\ frame'.item_biases =
               ClosedForm(frame.X, frame.global_mean, Cardinality(DOMAIN frame.item_biases),
                          2, frame'.user_biases, frame.reg)]_vars

C10_Witness ==
    /\ frame.kernel = "als"
    /\ frame.epoch = MaxEpochs
    /\ \E u \in DOMAIN frame.user_biases :
          IsFinite(frame.user_biases[u]) /\ frame.user_biases[u] # Zero
    /\ \E t \in DOMAIN frame.item_biases :
          IsFinite(frame.item_biases[t]) /\ frame.item_biases[t] # Zero

SgdRecordStep == frame.pc = "sgd" /\ frame'.n_updates # frame.n_updates

\* the step reads row frame.i, the next in table order, computes one error from the
\* biases as they are, and writes both biases with that error before the next row
SgdRecordInPlace ==
    LET rec == frame.X[frame.i + 1]
        bu == frame.user_biases[rec[1]]
        bi == frame.item_biases[rec[2]]
        err == Sub(Int2Float(rec[3]), Add(Add(frame.global_mean, bu), bi))
    IN  /\ frame.i < Len(frame.X)
        /\ frame'.i = frame.i + 1
        /\ frame'.epoch = frame.epoch
        /\ frame'.n_updates = frame.n_updates + 1
        /\ frame'.user_biases =
              [frame.user_biases EXCEPT
                 ![rec[1]] = Add(bu, Mul(frame.lr, Sub(err, Mul(frame.reg, bu))))]
        /\ frame'.item_biases =
              [frame.item_biases EXCEPT
                 ![rec[2]] = Add(bi, Mul(frame.lr, Sub(err, Mul(frame.reg, bi))))]

\* a pass ends only after the last row, and _sgd returns only after n_epochs passes
SgdNoEarlyStop ==
    /\ (frame.pc = "sgd" /\ frame'.epoch # frame.epoch) =>
          /\ frame.i = Len(frame.X)
          /\ frame'.epoch = frame.epoch + 1
          /\ frame'.i = 0
          /\ frame'.user_biases = frame.user_biases
          /\ frame'.item_biases = frame.item_biases
    /\ (frame.pc = "sgd" /\ frame'.pc = "returned") =>
          /\ frame.epoch = frame.n_epochs
          /\ frame.n_updates = frame.n_epochs * Len(frame.X)
          /\ frame'.user_biases = frame.user_biases
          /\ frame'.item_biases = frame.item_biases

IsExampleCall ==
    /\ frame.kernel = "sgd"
    /\ frame.X = ExampleTable
    /\ frame.n_epochs = 1
    /\ frame.lr = <<1, 10>>
    /\ frame.reg = Zero

\* the worked example after its first, second and third record; pred3 is the
\* prediction that record 3 sees
ExampleTrajectory(pred3) ==
    IsExampleCall =>
        /\ frame.global_mean = Int2Float(4)
        /\ (frame.epoch = 0 /\ frame.i = 1) =>
              /\ frame.user_biases[0] = <<1, 10>>
              /\ frame.item_biases[0] = <<1, 10>>
        /\ (frame.epoch = 0 /\ frame.i = 2) =>
              /\ frame.user_biases[0] = <<-1, 100>>
              /\ frame.item_biases[0] = <<1, 10>>
              /\ frame.item_biases[1] = <<-11, 100>>
        /\ (frame.epoch = 0 /\ frame.i = 3) =>
              frame.rating_pred = pred3

\* C9 as stated: _sgd performs exactly n_epochs passes with no early stop, visits the
\* records in table order, applies each record's user and item update in place with
\* one error computed before either; on [(0,0,5),(0,1,3),(1,0,4)], n_epochs = 1,
\* lr = 0.1, reg = 0: user_biases[0] = 0.1 then -0.01, item_biases[0] = 0.1,
\* item_biases[1] = -0.11, and record 3 sees pred = 4.09.
C9_SgdTrajectory_Pred409 ==
    [][/\ SgdRecordStep => SgdRecordInPlace
       /\ SgdNoEarlyStop
       /\ ExampleTrajectory(<<409, 100>>)']_vars

\* C9 amended: as stated, except that record 3, (1,0,4), sees
\* pred = 4.0 + user_biases[1] + item_biases[0] = 4.0 + 0 + 0.1 = 4.1.
C9_SgdTrajectory ==
    [][/\ SgdRecordStep => SgdRecordInPlace
       /\ SgdNoEarlyStop
       /\ ExampleTrajectory(<<41, 10>>)']_vars

C9_Witness ==
    /\ IsExampleCall
    /\ frame.pc = "returned"
    /\ frame.n_updates = 3
    /\ frame.rating_pred = <<41, 10>>
    /\ frame.user_biases[0] = <<-1, 100>>

====
